---- MODULE Spec2Model ----
(***************************************************************************)
(* A model of kilo.c: the key decoder, the document/cursor operations, the *)
(* viewport, the prompt and search controllers, the file boundary and the  *)
(* terminal-mode lifecycle.  Characters and keys are the integers the C    *)
(* code uses (byte values, and the editorKey enum from 1000 up).  Row and  *)
(* column indices are 0-based as in the C code; a C array a[i] is the      *)
(* sequence element a[i + 1].                                              *)
(***************************************************************************)
EXTENDS Integers, Sequences, FiniteSets, TLC

VARIABLES
    E,              \* struct editorConfig E (cursor, viewport, rows, dirty flag, filename)
    pc,             \* position of the single thread of control
    quit_times,     \* static int quit_times of editorProcessKeypress
    termios,        \* the terminal's current attributes: "orig" or "raw"
    atexit_set,     \* whether atexit(disableRawMode) has been registered
    restore,        \* outcome of disableRawMode at exit: "none", "ok" or "failed"
    prompt,         \* the running editorPrompt: which caller, and its buffer
    last_match,     \* static int last_match of editorFindCallback
    direction,      \* static int direction of editorFindCallback
    saved,          \* editorFind's saved_cx, saved_cy, saved_coloff, saved_rowoff
    qpresses,       \* history: consecutive Ctrl-Q presses dispatched so far
    hist,           \* history: the key dispatched last, what it started from, and
                    \*          whether content changed since the last load or save
    kpc,            \* editorReadKey: position in the decoder
    kseq,           \* editorReadKey: the bytes read in this call (c, seq[0..2])
    kpolls,         \* editorReadKey: polls of the byte source since the 0x1B byte
    kret,           \* editorReadKey: the returned key, or the outcome of the call
    input,          \* file boundary: the bytes of the file given to editorOpen
    disk,           \* file boundary: the bytes editorSave wrote
    iopc,           \* file boundary: position in the load-then-save run
    cv,             \* coordinate conversion: the row, the columns and the position of a call
    plog,           \* history: the keys read and the callback calls made by editorPrompt
    bar             \* status bar: the characters editorDrawStatusBar put into the frame

vars == <<E, pc, quit_times, termios, atexit_set, restore, prompt, last_match,
          direction, saved, qpresses, hist, kpc, kseq, kpolls, kret, input, disk, iopc,
          cv, plog, bar>>

edVars == <<E, pc, quit_times, termios, atexit_set, restore, prompt, last_match,
            direction, saved, qpresses, hist>>
keyVars == <<kpc, kseq, kpolls, kret>>
ioVars == <<input, disk, iopc>>
auxVars == <<cv, plog, bar>>

----------------------------------------------------------------------------
(* Program constants *)

KILO_TAB_STOP == 8
KILO_QUIT_TIMES == 3
CTRL_KEY(k) == k % 32

BACKSPACE == 127
ARROW_LEFT == 1000
ARROW_RIGHT == 1001
ARROW_UP == 1002
ARROW_DOWN == 1003
DEL_KEY == 1004
HOME_KEY == 1005
END_KEY == 1006
PAGE_UP == 1007
PAGE_DOWN == 1008

TAB == 9
LF == 10
CR == 13
ESC == 27
SPACE == 32

CTRL_Q == CTRL_KEY(113)
CTRL_S == CTRL_KEY(115)
CTRL_F == CTRL_KEY(102)
CTRL_H == CTRL_KEY(104)
CTRL_L == CTRL_KEY(108)

----------------------------------------------------------------------------
(* Bounds of the model *)

\* A document holds at most MaxCells rows and characters together.
MaxCells == 4
\* The dirty counter is followed up to MaxDirty.
MaxDirty == 3
\* The prompt buffer is followed up to MaxBuf characters.
MaxBuf == 1
\* The cursor row is followed up to MaxBeyond rows past the virtual line.
MaxBeyond == 1
\* Rows given to the coordinate conversions hold at most MaxRowLen characters.
MaxRowLen == 3
\* Rendered columns are tried up to MaxPast columns past the end of the row.
MaxPast == 2
\* Documents searched in a find session hold at most MaxFindRows rows.
MaxFindRows == 3
\* A prompt whose history is kept is followed for MaxKeys keys.
MaxKeys == 3
\* Documents whose status bar is drawn hold at most MaxStatusRows rows.
MaxStatusRows == 10
\* Files given to editorOpen hold at most MaxFileLen bytes.
MaxFileLen == 4

----------------------------------------------------------------------------
(* Row operations *)

RowAt(Ed, i) == Ed.row[i + 1]

\* mutant: a tab is padded with KILO_TAB_STOP - 1 spaces wherever it stands
PadSevenSpaces(out) == out \o [i \in 1..(KILO_TAB_STOP - 1) |-> SPACE]

\* the inner while loop of editorUpdateRow: pad with spaces to the next tab stop
RECURSIVE PadToTabStop(_)
PadToTabStop(out) ==
    IF Len(out) % KILO_TAB_STOP # 0 THEN PadToTabStop(Append(out, SPACE)) ELSE out

\* the second for loop of editorUpdateRow, from raw index i (0-based) on
RECURSIVE RenderFrom(_, _, _)
RenderFrom(chars, i, out) ==
    IF i >= Len(chars) THEN out
    ELSE IF chars[i + 1] = TAB
         THEN RenderFrom(chars, i + 1, PadToTabStop(Append(out, SPACE)))
         ELSE RenderFrom(chars, i + 1, Append(out, chars[i + 1]))

\* the first for loop of editorUpdateRow: the tabs of the row
CountTabs(chars) == Cardinality({i \in 1..Len(chars) : chars[i] = TAB})

\* the bytes editorUpdateRow allocates for render
RenderAlloc(row) == row.size + CountTabs(row.chars) * (KILO_TAB_STOP - 1) + 1

editorUpdateRow(row) ==
    LET render == RenderFrom(row.chars, 0, <<>>)
    IN  [row EXCEPT !.render = render, !.rsize = Len(render)]

\* mutant helper: the rendered width of the first n raw characters
RECURSIVE CxToRxStep(_, _)
CxToRxStep(row, n) ==
    IF n = 0 THEN 0
    ELSE LET w == CxToRxStep(row, n - 1)
         IN  IF row.chars[n] = TAB THEN w + KILO_TAB_STOP - (w % KILO_TAB_STOP) ELSE w + 1

RECURSIVE RxToCxFrom(_, _, _, _)
RxToCxFrom(row, rx, cx, current_rx) ==
    IF cx >= row.size THEN cx
    ELSE LET t == IF row.chars[cx + 1] = TAB
                  THEN current_rx + (KILO_TAB_STOP - 1) - (current_rx % KILO_TAB_STOP)
                  ELSE current_rx
             n == t + 1
         IN  IF n > rx THEN cx ELSE RxToCxFrom(row, rx, cx + 1, n)

\* mutant: the walk stops as soon as the rendered width reaches rx
editorRowRxToCxStopsEarly(row, rx) ==
    LET hits == {c \in 0..(row.size - 1) : CxToRxStep(row, c + 1) >= rx}
    IN  IF hits = {} THEN row.size ELSE CHOOSE c \in hits : \A d \in hits : c <= d

editorRowRxToCx(row, rx) == RxToCxFrom(row, rx, 0, 0)

\* chars[size] is the terminating NUL of the row's buffer
CharAt(row, j) == IF j = row.size THEN 0 ELSE row.chars[j + 1]

RECURSIVE CxToRxFrom(_, _, _, _)
CxToRxFrom(row, cx, j, rx) ==
    IF j >= cx THEN rx
    ELSE LET t == IF CharAt(row, j) = TAB
                  THEN rx + (KILO_TAB_STOP - 1) - (rx % KILO_TAB_STOP)
                  ELSE rx
         IN  CxToRxFrom(row, cx, j + 1, t + 1)

editorRowCxToRx(row, cx) == CxToRxFrom(row, cx, 0, 0)

\* memmove of a tail one place up and a store at index at (0-based)
InsertAt(s, at, x) == SubSeq(s, 1, at) \o <<x>> \o SubSeq(s, at + 1, Len(s))
\* memmove of a tail one place down over index at (0-based)
RemoveAt(s, at) == SubSeq(s, 1, at) \o SubSeq(s, at + 2, Len(s))

editorInsertRow(Ed, at, s) ==
    IF at < 0 \/ at > Ed.numrows THEN Ed
    ELSE LET new == editorUpdateRow([size |-> Len(s), rsize |-> 0, chars |-> s, render |-> <<>>])
         IN  [Ed EXCEPT !.row = InsertAt(Ed.row, at, new),
                        !.numrows = @ + 1,
                        !.dirty_flag = @ + 1]

editorDelRow(Ed, at) ==
    IF at < 0 \/ at >= Ed.numrows THEN Ed
    ELSE [Ed EXCEPT !.row = RemoveAt(Ed.row, at),
                    !.numrows = @ - 1,
                    !.dirty_flag = @ + 1]

\* row is &E.row[r]
editorRowInsertChar(Ed, r, at0, c) ==
    LET row == RowAt(Ed, r)
        at == IF at0 < 0 \/ at0 > row.size THEN row.size ELSE at0
        new == editorUpdateRow([row EXCEPT !.chars = InsertAt(row.chars, at, c),
                                           !.size = @ + 1])
    IN  [Ed EXCEPT !.row[r + 1] = new, !.dirty_flag = @ + 1]

\* mutant: the appended row is not rendered again
editorRowAppendStringNoUpdate(Ed, r, s) ==
    LET row == RowAt(Ed, r)
        new == [row EXCEPT !.chars = row.chars \o s, !.size = @ + Len(s)]
    IN  [Ed EXCEPT !.row[r + 1] = new, !.dirty_flag = @ + 1]

editorRowAppendString(Ed, r, s) ==
    LET row == RowAt(Ed, r)
        new == editorUpdateRow([row EXCEPT !.chars = row.chars \o s,
                                           !.size = @ + Len(s)])
    IN  [Ed EXCEPT !.row[r + 1] = new, !.dirty_flag = @ + 1]

\* mutant: deleting a character does not count as an edit
editorRowDelCharNoDirty(Ed, r, at) ==
    LET row == RowAt(Ed, r)
    IN  IF at < 0 \/ at >= row.size THEN Ed
        ELSE LET new == editorUpdateRow([row EXCEPT !.chars = RemoveAt(row.chars, at),
                                                    !.size = @ - 1])
             IN  [Ed EXCEPT !.row[r + 1] = new]

editorRowDelChar(Ed, r, at) ==
    LET row == RowAt(Ed, r)
    IN  IF at < 0 \/ at >= row.size THEN Ed
        ELSE LET new == editorUpdateRow([row EXCEPT !.chars = RemoveAt(row.chars, at),
                                                    !.size = @ - 1])
             IN  [Ed EXCEPT !.row[r + 1] = new, !.dirty_flag = @ + 1]

----------------------------------------------------------------------------
(* Editor operations *)

editorInsertChar(Ed, c) ==
    LET E1 == IF Ed.cy = Ed.numrows THEN editorInsertRow(Ed, Ed.numrows, <<>>) ELSE Ed
        E2 == editorRowInsertChar(E1, E1.cy, E1.cx, c)
    IN  [E2 EXCEPT !.cx = @ + 1]

\* mutant: the new row starts one character after the cursor
SplitRowDropsChar(Ed) ==
    LET row == RowAt(Ed, Ed.cy)
        E1 == editorInsertRow(Ed, Ed.cy + 1, SubSeq(row.chars, Ed.cx + 2, row.size))
        old == RowAt(E1, E1.cy)
        cut == editorUpdateRow([old EXCEPT !.size = E1.cx,
                                           !.chars = SubSeq(old.chars, 1, E1.cx)])
    IN  [E1 EXCEPT !.row[E1.cy + 1] = cut]

\* the else branch of editorInsertNewLine: split the row at the cursor
SplitRow(Ed) ==
    LET row == RowAt(Ed, Ed.cy)
        E1 == editorInsertRow(Ed, Ed.cy + 1, SubSeq(row.chars, Ed.cx + 1, row.size))
        old == RowAt(E1, E1.cy)
        cut == editorUpdateRow([old EXCEPT !.size = E1.cx,
                                           !.chars = SubSeq(old.chars, 1, E1.cx)])
    IN  [E1 EXCEPT !.row[E1.cy + 1] = cut]

editorInsertNewLine(Ed) ==
    LET E1 == IF Ed.cx = 0 THEN editorInsertRow(Ed, Ed.cy, <<>>) ELSE SplitRow(Ed)
    IN  [E1 EXCEPT !.cy = @ + 1, !.cx = 0]

\* mutant: the cursor column is taken after the append, not before it
editorDelCharCxAfterAppend(Ed) ==
    IF Ed.cy = Ed.numrows THEN Ed
    ELSE IF Ed.cx = 0 /\ Ed.cy = 0 THEN Ed
    ELSE IF Ed.cx > 0
         THEN LET E1 == editorRowDelChar(Ed, Ed.cy, Ed.cx - 1)
              IN  [E1 EXCEPT !.cx = @ - 1]
         ELSE LET row == RowAt(Ed, Ed.cy)
                  E1 == editorRowAppendString(Ed, Ed.cy - 1, SubSeq(row.chars, 1, row.size))
                  E2 == [E1 EXCEPT !.cx = RowAt(E1, E1.cy - 1).size]
                  E3 == editorDelRow(E2, E2.cy)
              IN  [E3 EXCEPT !.cy = @ - 1]

editorDelChar(Ed) ==
    IF Ed.cy = Ed.numrows THEN Ed
    ELSE IF Ed.cx = 0 /\ Ed.cy = 0 THEN Ed
    ELSE IF Ed.cx > 0
         THEN LET E1 == editorRowDelChar(Ed, Ed.cy, Ed.cx - 1)
              IN  [E1 EXCEPT !.cx = @ - 1]
         ELSE LET row == RowAt(Ed, Ed.cy)
                  E1 == [Ed EXCEPT !.cx = RowAt(Ed, Ed.cy - 1).size]
                  E2 == editorRowAppendString(E1, E1.cy - 1, SubSeq(row.chars, 1, row.size))
                  E3 == editorDelRow(E2, E2.cy)
              IN  [E3 EXCEPT !.cy = @ - 1]

\* editorInsertChar indexes E.row with cy past the rows
InsertCharUndefined(Ed) == Ed.cy > Ed.numrows

\* the else branch of editorInsertNewLine indexes E.row with cy at or past the
\* rows, or passes the negative length size - cx as a size_t
InsertNewLineUndefined(Ed) ==
    /\ Ed.cx # 0
    /\ \/ Ed.cy >= Ed.numrows
       \/ Ed.cx > RowAt(Ed, Ed.cy).size

\* editorDelChar indexes E.row with cy (and cy - 1) past the rows
DelCharUndefined(Ed) == Ed.cy > Ed.numrows

----------------------------------------------------------------------------
(* File I/O *)

RECURSIVE RowsToStringFrom(_, _, _)
RowsToStringFrom(Ed, i, buf) ==
    IF i >= Ed.numrows THEN buf
    ELSE LET row == RowAt(Ed, i)
         IN  RowsToStringFrom(Ed, i + 1, buf \o SubSeq(row.chars, 1, row.size) \o <<LF>>)

\* mutant: no LF after the last row
editorRowsToStringNoFinalLF(Ed) ==
    LET buf == RowsToStringFrom(Ed, 0, <<>>)
    IN  IF buf = <<>> THEN buf ELSE SubSeq(buf, 1, Len(buf) - 1)

editorRowsToString(Ed) == RowsToStringFrom(Ed, 0, <<>>)

\* getline: the bytes up to and including the next LF, or to the end of the stream
RECURSIVE GetLineLen(_, _)
GetLineLen(bytes, n) ==
    IF n >= Len(bytes) THEN n
    ELSE IF bytes[n + 1] = LF THEN n + 1
    ELSE GetLineLen(bytes, n + 1)

\* the inner while loop of editorOpen: drop the trailing LF and CR bytes
RECURSIVE StripLineEnd(_, _)
StripLineEnd(line, linelen) ==
    IF linelen > 0 /\ (line[linelen] = LF \/ line[linelen] = CR)
    THEN StripLineEnd(line, linelen - 1)
    ELSE linelen

\* the getline loop of editorOpen over the rest of the stream
RECURSIVE ReadLines(_, _)
ReadLines(Ed, bytes) ==
    IF bytes = <<>> THEN Ed
    ELSE LET n == GetLineLen(bytes, 0)
             line == SubSeq(bytes, 1, n)
             linelen == StripLineEnd(line, n)
         IN  ReadLines(editorInsertRow(Ed, Ed.numrows, SubSeq(line, 1, linelen)),
                       SubSeq(bytes, n + 1, Len(bytes)))

\* editorOpen once fopen has succeeded on a file holding bytes
editorOpen(Ed, filename, bytes) ==
    LET E1 == ReadLines([Ed EXCEPT !.filename = {filename}], bytes)
    IN  [E1 EXCEPT !.dirty_flag = 0]

\* editorSave from the call of editorRowsToString on: ok says whether open,
\* ftruncate and the full write all succeeded
editorSave(Ed, ok) == IF ok THEN [Ed EXCEPT !.dirty_flag = 0] ELSE Ed

----------------------------------------------------------------------------
(* Find *)

\* strstr: the 0-based offset of the first occurrence of needle, or -1
StrStr(hay, needle) ==
    LET hits == {o \in 0..(Len(hay) - Len(needle)) :
                    SubSeq(hay, o + 1, o + Len(needle)) = needle}
    IN  IF hits = {} THEN -1 ELSE CHOOSE o \in hits : \A p \in hits : o <= p

\* mutant: a backward step from row 0 goes to row 0 again instead of the last row
RECURSIVE FindScanNoBackWrap(_, _, _, _, _, _)
FindScanNoBackWrap(Ed, lm, dir, query, i, current0) ==
    IF i >= Ed.numrows THEN [E |-> Ed, last_match |-> lm, direction |-> dir]
    ELSE LET c1 == current0 + dir
             current == IF c1 = -1 THEN 0
                        ELSE IF c1 = Ed.numrows THEN 0 ELSE c1
             row == RowAt(Ed, current)
             match == StrStr(row.render, query)
         IN  IF match # -1
             THEN [E |-> [Ed EXCEPT !.cy = current,
                                    !.cx = editorRowRxToCx(row, match),
                                    !.rowoff = Ed.numrows],
                   last_match |-> current, direction |-> dir]
             ELSE FindScanNoBackWrap(Ed, lm, dir, query, i + 1, current)

\* mutant: a hit puts the match's rendered offset itself into cx
RECURSIVE FindScanCxIsOffset(_, _, _, _, _, _)
FindScanCxIsOffset(Ed, lm, dir, query, i, current0) ==
    IF i >= Ed.numrows THEN [E |-> Ed, last_match |-> lm, direction |-> dir]
    ELSE LET c1 == current0 + dir
             current == IF c1 = -1 THEN Ed.numrows - 1
                        ELSE IF c1 = Ed.numrows THEN 0 ELSE c1
             row == RowAt(Ed, current)
             match == StrStr(row.render, query)
         IN  IF match # -1
             THEN [E |-> [Ed EXCEPT !.cy = current,
                                    !.cx = match,
                                    !.rowoff = Ed.numrows],
                   last_match |-> current, direction |-> dir]
             ELSE FindScanCxIsOffset(Ed, lm, dir, query, i + 1, current)

\* the for loop of editorFindCallback from iteration i on
RECURSIVE FindScan(_, _, _, _, _, _)
FindScan(Ed, lm, dir, query, i, current0) ==
    IF i >= Ed.numrows THEN [E |-> Ed, last_match |-> lm, direction |-> dir]
    ELSE LET c1 == current0 + dir
             current == IF c1 = -1 THEN Ed.numrows - 1
                        ELSE IF c1 = Ed.numrows THEN 0 ELSE c1
             row == RowAt(Ed, current)
             match == StrStr(row.render, query)
         IN  IF match # -1
             THEN [E |-> [Ed EXCEPT !.cy = current,
                                    !.cx = editorRowRxToCx(row, match),
                                    !.rowoff = Ed.numrows],
                   last_match |-> current, direction |-> dir]
             ELSE FindScan(Ed, lm, dir, query, i + 1, current)

\* mutant: Enter and Escape return without resetting last_match and direction
editorFindCallbackNoReset(Ed, lm0, dir0, query, key) ==
    IF key = CR \/ key = ESC
    THEN [E |-> Ed, last_match |-> lm0, direction |-> dir0]
    ELSE LET lm == IF key \in {ARROW_RIGHT, ARROW_DOWN, ARROW_LEFT, ARROW_UP} THEN lm0 ELSE -1
             d1 == IF key \in {ARROW_RIGHT, ARROW_DOWN} THEN 1
                   ELSE IF key \in {ARROW_LEFT, ARROW_UP} THEN -1 ELSE 1
             dir == IF lm = -1 THEN 1 ELSE d1
         IN  FindScan(Ed, lm, dir, query, 0, lm)

editorFindCallback(Ed, lm0, dir0, query, key) ==
    IF key = CR \/ key = ESC
    THEN [E |-> Ed, last_match |-> -1, direction |-> 1]
    ELSE LET lm == IF key \in {ARROW_RIGHT, ARROW_DOWN, ARROW_LEFT, ARROW_UP} THEN lm0 ELSE -1
             d1 == IF key \in {ARROW_RIGHT, ARROW_DOWN} THEN 1
                   ELSE IF key \in {ARROW_LEFT, ARROW_UP} THEN -1 ELSE 1
             dir == IF lm = -1 THEN 1 ELSE d1
         IN  FindScan(Ed, lm, dir, query, 0, lm)

----------------------------------------------------------------------------
(* Output *)

\* mutant: scrolling down stops one row short of the cursor
editorScrollOffByOne(Ed) ==
    LET rx == IF Ed.cy < Ed.numrows THEN editorRowCxToRx(RowAt(Ed, Ed.cy), Ed.cx) ELSE 0
        r1 == IF Ed.cy < Ed.rowoff THEN Ed.cy ELSE Ed.rowoff
        r2 == IF Ed.cy >= r1 + Ed.screenrows THEN Ed.cy - Ed.screenrows ELSE r1
        c1 == IF rx < Ed.coloff THEN rx ELSE Ed.coloff
        c2 == IF rx >= c1 + Ed.screencols THEN rx - Ed.screencols + 1 ELSE c1
    IN  [Ed EXCEPT !.rx = rx, !.rowoff = r2, !.coloff = c2]

editorScroll(Ed) ==
    LET rx == IF Ed.cy < Ed.numrows THEN editorRowCxToRx(RowAt(Ed, Ed.cy), Ed.cx) ELSE 0
        r1 == IF Ed.cy < Ed.rowoff THEN Ed.cy ELSE Ed.rowoff
        r2 == IF Ed.cy >= r1 + Ed.screenrows THEN Ed.cy - Ed.screenrows + 1 ELSE r1
        c1 == IF rx < Ed.coloff THEN rx ELSE Ed.coloff
        c2 == IF rx >= c1 + Ed.screencols THEN rx - Ed.screencols + 1 ELSE c1
    IN  [Ed EXCEPT !.rx = rx, !.rowoff = r2, !.coloff = c2]

\* editorScroll takes &E.row[E.cy] when cy < numrows, a row before the array when
\* cy < 0; editorRowCxToRx reads chars[j] for j < cx: past the NUL when
\* cx > size + 1
ScrollUndefined(Ed) ==
    \/ Ed.cy < 0
    \/ Ed.cy < Ed.numrows /\ Ed.cx > RowAt(Ed, Ed.cy).size + 1

\* "%d" of a non-negative int: its decimal digits
RECURSIVE Digits(_)
Digits(n) == IF n < 10 THEN <<48 + n>> ELSE Append(Digits(n \div 10), 48 + (n % 10))

\* the string literals of editorDrawStatusBar
StrNoName == <<91, 78, 111, 32, 78, 97, 109, 101, 93>>
StrDash == <<32, 45, 32>>
StrLines == <<32, 108, 105, 110, 101, 115>>
StrModified == <<40, 109, 111, 100, 105, 102, 105, 101, 100, 41>>
StrSlash == <<47>>

\* "%.20s": at most 20 characters of the string
Precision20(str) == SubSeq(str, 1, IF Len(str) < 20 THEN Len(str) ELSE 20)

\* the while loop of editorDrawStatusBar: spaces up to the point where rstatus
\* fits exactly, then rstatus; spaces to the edge when it never fits
RECURSIVE PadStatus(_, _, _)
PadStatus(line, rstatus, screencols) ==
    IF Len(line) >= screencols THEN line
    ELSE IF screencols - Len(line) = Len(rstatus) THEN line \o rstatus
    ELSE PadStatus(Append(line, SPACE), rstatus, screencols)

\* the characters editorDrawStatusBar puts between the two colour sequences.
\* The format "%.20s - %d lines" has two conversions: the third argument, the
\* "(modified)" string, is evaluated and not printed.
editorDrawStatusBar(Ed) ==
    LET name == IF Ed.filename = {} THEN StrNoName ELSE CHOOSE f \in Ed.filename : TRUE
        status == Precision20(name) \o StrDash \o Digits(Ed.numrows) \o StrLines
        rstatus == Digits(Ed.cy + 1) \o StrSlash \o Digits(Ed.numrows)
        len == IF Len(status) > Ed.screencols THEN Ed.screencols ELSE Len(status)
    IN  PadStatus(SubSeq(status, 1, len), rstatus, Ed.screencols)

\* the cursor cell of the escape sequence editorRefreshScreen emits last
CursorCell(Ed) == <<(Ed.cy - Ed.rowoff) + 1, (Ed.rx - Ed.coloff) + 1>>

----------------------------------------------------------------------------
(* Input *)

\* ARROW_LEFT at column 0 reads E.row[cy - 1].size with cy - 1 at or past the rows
MoveCursorUndefined(Ed, key) ==
    key = ARROW_LEFT /\ Ed.cx = 0 /\ Ed.cy > 0 /\ Ed.cy - 1 >= Ed.numrows

editorMoveCursor(Ed, key) ==
    LET hasrow == Ed.cy < Ed.numrows
        E1 == CASE key = ARROW_LEFT ->
                     IF Ed.cx # 0 THEN [Ed EXCEPT !.cx = @ - 1]
                     ELSE IF Ed.cy > 0
                          THEN [Ed EXCEPT !.cy = @ - 1, !.cx = RowAt(Ed, Ed.cy - 1).size]
                          ELSE Ed
                [] key = ARROW_RIGHT ->
                     IF hasrow /\ Ed.cx < RowAt(Ed, Ed.cy).size THEN [Ed EXCEPT !.cx = @ + 1]
                     ELSE IF hasrow /\ Ed.cx = RowAt(Ed, Ed.cy).size
                          THEN [Ed EXCEPT !.cy = @ + 1, !.cx = 0]
                          ELSE Ed
                [] key = ARROW_UP ->
                     IF Ed.cy # 0 THEN [Ed EXCEPT !.cy = @ - 1] ELSE Ed
                [] key = ARROW_DOWN ->
                     IF Ed.cy < Ed.numrows THEN [Ed EXCEPT !.cy = @ + 1] ELSE Ed
                [] OTHER -> Ed
        rowlen == IF E1.cy >= E1.numrows THEN 0 ELSE RowAt(E1, E1.cy).size
    IN  IF E1.cx > rowlen THEN [E1 EXCEPT !.cx = rowlen] ELSE E1

\* while (times--) editorMoveCursor(key)
RECURSIVE MoveTimes(_, _, _)
MoveTimes(Ed, key, times) ==
    IF times = 0 THEN Ed ELSE MoveTimes(editorMoveCursor(Ed, key), key, times - 1)

\* mutant: the cursor is moved one row, not screenrows rows
PageMoveOneRow(Ed, c) ==
    LET E1 == IF c = PAGE_UP THEN [Ed EXCEPT !.cy = Ed.rowoff]
              ELSE LET y == Ed.rowoff + Ed.screenrows - 1
                   IN  [Ed EXCEPT !.cy = IF y > Ed.numrows THEN Ed.numrows ELSE y]
    IN  MoveTimes(E1, IF c = PAGE_UP THEN ARROW_UP ELSE ARROW_DOWN,
                  IF Ed.screenrows > 0 THEN 1 ELSE 0)

\* the PAGE_UP / PAGE_DOWN case of editorProcessKeypress
PageMove(Ed, c) ==
    LET E1 == IF c = PAGE_UP THEN [Ed EXCEPT !.cy = Ed.rowoff]
              ELSE LET y == Ed.rowoff + Ed.screenrows - 1
                   IN  [Ed EXCEPT !.cy = IF y > Ed.numrows THEN Ed.numrows ELSE y]
    IN  MoveTimes(E1, IF c = PAGE_UP THEN ARROW_UP ELSE ARROW_DOWN, Ed.screenrows)

\* the BACKSPACE / Ctrl-H / DEL_KEY case of editorProcessKeypress
DeleteKey(Ed, c) ==
    editorDelChar(IF c = DEL_KEY THEN editorMoveCursor(Ed, ARROW_RIGHT) ELSE Ed)

DeleteKeyUndefined(Ed, c) ==
    DelCharUndefined(IF c = DEL_KEY THEN editorMoveCursor(Ed, ARROW_RIGHT) ELSE Ed)

----------------------------------------------------------------------------
(* Inputs of the model *)

\* the characters typed into the document
TypedChars == {97, TAB}
\* the printable characters typed into a prompt
PromptChars == {97}
\* the keys editorReadKey hands to the main loop and to the prompt
KeySet == TypedChars \cup {CR, ESC, BACKSPACE, CTRL_Q, CTRL_S, CTRL_F, CTRL_H, CTRL_L}
          \cup (ARROW_LEFT..PAGE_DOWN)
\* keys the prompt neither edits with nor returns on
PromptOtherKeys == {ARROW_LEFT, ARROW_RIGHT, ARROW_UP, ARROW_DOWN, TAB, HOME_KEY}
\* the window sizes getWindowSize reports: terminals of 2, 3 and 4 rows, which
\* leave 0, 1 and 2 text rows
WinSizes == {[rows |-> 2, cols |-> 9], [rows |-> 3, cols |-> 2], [rows |-> 4, cols |-> 9]}
\* argv[1] and the content of the file it names
ArgFile == [name |-> <<97>>, bytes |-> <<TAB, 97, LF>>]

RECURSIVE SumSizes(_, _)
SumSizes(rows, i) == IF i > Len(rows) THEN 0 ELSE rows[i].size + SumSizes(rows, i + 1)
Cells(Ed) == Ed.numrows + SumSizes(Ed.row, 1)
WithinBounds(Ed) ==
    /\ Cells(Ed) <= MaxCells
    /\ Ed.dirty_flag <= MaxDirty
    /\ Ed.cy <= Ed.numrows + MaxBeyond

RawRows(Ed) == [i \in 1..Ed.numrows |-> Ed.row[i].chars]

----------------------------------------------------------------------------
(* The program: startup, the main loop, the prompt loop, exit *)

\* struct editorConfig E as a zero-initialised global
ZeroE == [cx |-> 0, cy |-> 0, rx |-> 0, rowoff |-> 0, coloff |-> 0,
          screenrows |-> 0, screencols |-> 0, numrows |-> 0, row |-> <<>>,
          dirty_flag |-> 0, filename |-> {}]

NoPrompt == [kind |-> "none", buf |-> <<>>]
NoEntry == [cx |-> 0, cy |-> 0, rowoff |-> 0, coloff |-> 0, rows |-> <<>>,
            filename |-> {}, dirty |-> 0]
\* what a key that starts a save or a search found
EntryOf(Ed) == [cx |-> Ed.cx, cy |-> Ed.cy, rowoff |-> Ed.rowoff, coloff |-> Ed.coloff,
                rows |-> [i \in 1..Ed.numrows |-> Ed.row[i].chars],
                filename |-> Ed.filename, dirty |-> Ed.dirty_flag]
NoHist == [kind |-> "", before |-> <<>>, entry |-> NoEntry, mutated |-> FALSE]

\* history of a key whose dispatch has set E': content has changed when the raw
\* rows differ
Noted(kind, before) ==
    hist' = [kind |-> kind, before |-> before, entry |-> NoEntry,
             mutated |-> hist.mutated \/ RawRows(E') # RawRows(E)]
\* history of a key that leaves the document alone
Kept(kind, entry) ==
    hist' = [kind |-> kind, before |-> <<>>, entry |-> entry, mutated |-> hist.mutated]
\* history of a save
Saved(kind, ok) ==
    hist' = [kind |-> kind, before |-> <<>>, entry |-> EntryOf(E),
             mutated |-> IF ok THEN FALSE ELSE hist.mutated]
\* the kinds that last until the next frame only
FrameKinds == {"noop", "del", "save_ok", "save_failed", "save_aborted", "find_esc",
               "find_enter"}

KeyIdle == kpc = "idle" /\ kseq = <<>> /\ kpolls = 0 /\ kret = 0
IoIdle == input = <<>> /\ disk = <<>> /\ iopc = "idle"
NoRow == [size |-> 0, rsize |-> 0, chars |-> <<>>, render |-> <<>>]
CvIdle == cv = [pc |-> "idle", row |-> NoRow, cx |-> 0, rx |-> 0, out |-> 0]
NoLog == [on |-> FALSE, kind |-> "none", keys |-> <<>>, calls |-> <<>>]
LogOff == plog = NoLog
NoBar == bar = [drawn |-> FALSE, line |-> <<>>]

\* the process image when main is entered
EdInit ==
    /\ E = ZeroE
    /\ pc = "main"
    /\ quit_times = KILO_QUIT_TIMES
    /\ termios = "orig"
    /\ atexit_set = FALSE
    /\ restore = "none"
    /\ prompt = NoPrompt
    /\ last_match = -1
    /\ direction = 1
    /\ saved = <<0, 0, 0, 0>>
    /\ qpresses = 0
    /\ hist = NoHist

Init == EdInit /\ KeyIdle /\ IoIdle /\ CvIdle /\ LogOff /\ NoBar

\* exit(): the handler registered with atexit, disableRawMode, runs before the
\* process terminates; when its tcsetattr fails it calls die, hence exit a second
\* time, which is undefined behaviour.  A process that has terminated has no memory.
Exit(registered) ==
    /\ atexit_set' = registered
    /\ IF registered
       THEN \/ termios' = "orig" /\ restore' = "ok" /\ pc' = "terminated"
            \/ restore' = "failed" /\ pc' \in {"terminated", "undefined"} /\ UNCHANGED termios
       ELSE pc' = "terminated" /\ UNCHANGED <<termios, restore>>
    /\ E' = ZeroE
    /\ quit_times' = KILO_QUIT_TIMES
    /\ prompt' = NoPrompt
    /\ last_match' = -1
    /\ direction' = 1
    /\ saved' = <<0, 0, 0, 0>>
    /\ hist' = NoHist

\* an access outside E.row or outside a row's buffer: undefined behaviour, after
\* which nothing is known of the process
OutOfBounds ==
    /\ pc' = "out_of_bounds"
    /\ E' = ZeroE
    /\ quit_times' = KILO_QUIT_TIMES
    /\ prompt' = NoPrompt
    /\ last_match' = -1
    /\ direction' = 1
    /\ saved' = <<0, 0, 0, 0>>
    /\ hist' = NoHist
    /\ qpresses' = 0
    /\ UNCHANGED <<termios, atexit_set, restore, keyVars, ioVars, auxVars>>

\* die(): clear the screen, perror, exit(1)
Die == Exit(atexit_set)

\* mutant: disableRawMode is never registered with atexit
EnableRawModeNoAtexit ==
    /\ pc = "main"
    /\ \E outcome \in {"tcgetattr fails", "tcsetattr fails", "ok"} :
          CASE outcome = "tcgetattr fails" -> Exit(FALSE)
            [] outcome = "tcsetattr fails" -> Exit(FALSE)
            [] OTHER ->
                  /\ atexit_set' = FALSE
                  /\ termios' = "raw"
                  /\ pc' = "initEditor"
                  /\ UNCHANGED <<E, quit_times, restore, prompt, last_match, direction,
                                 saved, hist>>
    /\ UNCHANGED <<qpresses, keyVars, ioVars, auxVars>>

\* enableRawMode, called first by main
EnableRawMode ==
    /\ pc = "main"
    /\ \E outcome \in {"tcgetattr fails", "tcsetattr fails", "ok"} :
          CASE outcome = "tcgetattr fails" -> Exit(FALSE)
            [] outcome = "tcsetattr fails" -> Exit(TRUE)
            [] OTHER ->
                  /\ atexit_set' = TRUE
                  /\ termios' = "raw"
                  /\ pc' = "initEditor"
                  /\ UNCHANGED <<E, quit_times, restore, prompt, last_match, direction,
                                 saved, hist>>
    /\ UNCHANGED <<qpresses, keyVars, ioVars, auxVars>>

\* initEditor: reset the fields, query the window size
InitEditor ==
    /\ pc = "initEditor"
    /\ \/ Die
       \/ \E ws \in WinSizes :
             /\ E' = [ZeroE EXCEPT !.screenrows = ws.rows - 2, !.screencols = ws.cols]
             /\ pc' = "open"
             /\ UNCHANGED <<quit_times, termios, atexit_set, restore, prompt, last_match,
                            direction, saved, hist>>
    /\ UNCHANGED <<qpresses, keyVars, ioVars, auxVars>>

\* main: if (argc >= 2) editorOpen(argv[1]); then the first status message
OpenArg ==
    /\ pc = "open"
    /\ \/ /\ pc' = "refresh"
          /\ UNCHANGED <<E, quit_times, termios, atexit_set, restore, prompt, last_match,
                         direction, saved, hist>>
       \/ Die
       \/ /\ E' = editorOpen(E, ArgFile.name, ArgFile.bytes)
          /\ pc' = "refresh"
          /\ UNCHANGED <<quit_times, termios, atexit_set, restore, prompt, last_match,
                         direction, saved, hist>>
    /\ UNCHANGED <<qpresses, keyVars, ioVars, auxVars>>

\* editorRefreshScreen in the main loop
Refresh ==
    /\ pc = "refresh"
    /\ IF ScrollUndefined(E) THEN OutOfBounds
       ELSE /\ E' = editorScroll(E)
            /\ pc' = "keypress"
            /\ IF hist.kind \in FrameKinds THEN Kept("", NoEntry) ELSE UNCHANGED hist
            /\ UNCHANGED <<quit_times, termios, atexit_set, restore, prompt, last_match,
                           direction, saved, qpresses, keyVars, ioVars, auxVars>>

\* editorReadKey: read fails with an error other than EAGAIN
ReadFail ==
    /\ pc \in {"keypress", "prompt_key"}
    /\ Die
    /\ UNCHANGED <<qpresses, keyVars, ioVars, auxVars>>

\* the end of editorProcessKeypress after a case that breaks out of the switch
KeyDone(Ed) ==
    /\ WithinBounds(Ed)
    /\ E' = Ed
    /\ quit_times' = KILO_QUIT_TIMES
    /\ qpresses' = 0
    /\ pc' = "refresh"
    /\ UNCHANGED <<termios, atexit_set, restore, prompt, last_match, direction, saved,
                   keyVars, ioVars, auxVars>>

KeyEnter ==
    /\ pc = "keypress"
    /\ IF InsertNewLineUndefined(E) THEN OutOfBounds
       ELSE /\ KeyDone(editorInsertNewLine(E))
            /\ IF E.cy < E.numrows THEN Noted("enter", RawRows(E)) ELSE Noted("", <<>>)

KeyQuit ==
    /\ pc = "keypress"
    /\ IF E.dirty_flag # 0 /\ quit_times > 0
       THEN /\ quit_times' = quit_times - 1
            /\ pc' = "refresh"
            /\ Kept("", NoEntry)
            /\ UNCHANGED <<E, termios, atexit_set, restore, prompt, last_match,
                           direction, saved>>
       ELSE Exit(atexit_set)
    /\ qpresses' = qpresses + 1
    /\ UNCHANGED <<keyVars, ioVars, auxVars>>

\* Ctrl-S with a filename: editorSave runs to its end
KeySave ==
    /\ pc = "keypress"
    /\ E.filename # {}
    /\ \E ok \in BOOLEAN :
          /\ KeyDone(editorSave(E, ok))
          /\ Saved(IF ok THEN "save_ok" ELSE "save_failed", ok)

\* Ctrl-S without a filename: editorSave enters editorPrompt.  Neither editorSave
\* nor editorPrompt reads quit_times, so the store that follows their return
\* (quit_times = KILO_QUIT_TIMES at the end of editorProcessKeypress) is made here.
KeySaveAs ==
    /\ pc = "keypress"
    /\ E.filename = {}
    /\ prompt' = [kind |-> "save", buf |-> <<>>]
    /\ pc' = "prompt_refresh"
    /\ quit_times' = KILO_QUIT_TIMES
    /\ qpresses' = 0
    /\ Kept("save_as", EntryOf(E))
    /\ plog' = [plog EXCEPT !.kind = IF plog.on THEN "save" ELSE @,
                            !.keys = <<>>, !.calls = <<>>]
    /\ UNCHANGED <<E, termios, atexit_set, restore, last_match, direction,
                   saved, keyVars, ioVars, cv, bar>>

KeyHome ==
    /\ pc = "keypress"
    /\ KeyDone([E EXCEPT !.cx = 0])
    /\ Noted("", <<>>)

KeyEnd ==
    /\ pc = "keypress"
    /\ KeyDone(IF E.cy < E.numrows THEN [E EXCEPT !.cx = RowAt(E, E.cy).size] ELSE E)
    /\ Noted("", <<>>)

\* Ctrl-F: editorFind saves the cursor and viewport and enters editorPrompt
\* (quit_times as in KeySaveAs)
KeyFind ==
    /\ pc = "keypress"
    /\ saved' = <<E.cx, E.cy, E.coloff, E.rowoff>>
    /\ prompt' = [kind |-> "find", buf |-> <<>>]
    /\ pc' = "prompt_refresh"
    /\ quit_times' = KILO_QUIT_TIMES
    /\ qpresses' = 0
    /\ Kept("find", EntryOf(E))
    /\ plog' = [plog EXCEPT !.kind = IF plog.on THEN "find" ELSE @,
                            !.keys = <<>>, !.calls = <<>>]
    /\ UNCHANGED <<E, termios, atexit_set, restore, last_match, direction,
                   keyVars, ioVars, cv, bar>>

KeyDelete ==
    /\ pc = "keypress"
    /\ \E c \in {BACKSPACE, CTRL_H, DEL_KEY} :
          IF DeleteKeyUndefined(E, c) THEN OutOfBounds
          ELSE /\ KeyDone(DeleteKey(E, c))
               /\ IF c = DEL_KEY THEN Noted("del", <<>>)
                  ELSE IF hist.kind = "enter" THEN Noted("enter_bs", hist.before)
                  ELSE Noted("", <<>>)

KeyPage ==
    /\ pc = "keypress"
    /\ \E c \in {PAGE_UP, PAGE_DOWN} :
          /\ KeyDone(PageMove(E, c))
          /\ Kept(IF c = PAGE_UP THEN "page_up" ELSE "page_down",
                  [NoEntry EXCEPT !.cy = E.cy, !.rowoff = E.rowoff])

KeyArrow ==
    /\ pc = "keypress"
    /\ \E c \in {ARROW_UP, ARROW_DOWN, ARROW_LEFT, ARROW_RIGHT} :
          IF MoveCursorUndefined(E, c) THEN OutOfBounds
          ELSE KeyDone(editorMoveCursor(E, c)) /\ Noted("", <<>>)

\* mutant: Ctrl-L and Escape go straight back to the key read
KeyNoopNoRedraw ==
    /\ pc = "keypress"
    /\ WithinBounds(E)
    /\ quit_times' = KILO_QUIT_TIMES
    /\ qpresses' = 0
    /\ pc' = "keypress"
    /\ Kept("noop", NoEntry)
    /\ UNCHANGED <<E, termios, atexit_set, restore, prompt, last_match, direction, saved,
                   keyVars, ioVars, auxVars>>

\* Ctrl-L and Escape
KeyNoop ==
    /\ pc = "keypress"
    /\ KeyDone(E)
    /\ Kept("noop", NoEntry)

\* the default case
KeyInsertChar ==
    /\ pc = "keypress"
    /\ \E c \in TypedChars :
          IF InsertCharUndefined(E) THEN OutOfBounds
          ELSE KeyDone(editorInsertChar(E, c)) /\ Noted("", <<>>)

\* editorRefreshScreen at the top of the editorPrompt loop
PromptRefresh ==
    /\ pc = "prompt_refresh"
    /\ IF ScrollUndefined(E) THEN OutOfBounds
       ELSE /\ E' = editorScroll(E)
            /\ pc' = "prompt_key"
            /\ UNCHANGED <<quit_times, termios, atexit_set, restore, prompt, last_match,
                           direction, saved, qpresses, hist, keyVars, ioVars, auxVars>>

\* if (callback) callback(buf, c): editorFind passes editorFindCallback, editorSave NULL
Callback(kind, Ed, lm, dir, buf, c) ==
    IF kind = "find" THEN editorFindCallback(Ed, lm, dir, buf, c)
    ELSE [E |-> Ed, last_match |-> lm, direction |-> dir]

\* the history of a prompt, where it is kept: key c was read, and the callback, if
\* one was supplied, was called with (buf, c)
Logged(buf, c) ==
    plog' = IF plog.on
            THEN [plog EXCEPT !.keys = Append(@, c),
                              !.calls = IF prompt.kind = "find"
                                        THEN Append(@, <<buf, c>>) ELSE @]
            ELSE plog
\* a prompt whose history is kept is followed for MaxKeys keys
CanLog == plog.on => Len(plog.keys) < MaxKeys

\* a key after which the editorPrompt loop goes round again
PromptContinue(buf, c) ==
    LET r == Callback(prompt.kind, E, last_match, direction, buf, c)
    IN  /\ CanLog
        /\ prompt' = [prompt EXCEPT !.buf = buf]
        /\ E' = r.E
        /\ last_match' = r.last_match
        /\ direction' = r.direction
        /\ pc' = "prompt_refresh"
        /\ Logged(buf, c)
        /\ UNCHANGED <<quit_times, termios, atexit_set, restore, saved, qpresses, hist,
                       keyVars, ioVars, cv, bar>>

\* editorPrompt has returned on key c to editorFind or editorSave, which returns to
\* the switch
PromptReturn(Ed, r, c, kind) ==
    /\ CanLog
    /\ E' = Ed
    /\ last_match' = r.last_match
    /\ direction' = r.direction
    /\ prompt' = NoPrompt
    /\ saved' = <<0, 0, 0, 0>>
    /\ pc' = "refresh"
    /\ Logged(prompt.buf, c)
    /\ hist' = [hist EXCEPT !.kind = kind,
                            !.before = <<E.cx, E.cy, E.rowoff, E.coloff>>,
                            !.mutated = IF kind = "save_ok" THEN FALSE ELSE @]
    /\ UNCHANGED <<quit_times, qpresses, termios, atexit_set, restore, keyVars, ioVars, cv, bar>>

PromptDelete ==
    /\ pc = "prompt_key"
    /\ \E c \in {DEL_KEY, CTRL_H, BACKSPACE} :
          PromptContinue(IF Len(prompt.buf) # 0
                         THEN SubSeq(prompt.buf, 1, Len(prompt.buf) - 1)
                         ELSE prompt.buf, c)

\* mutant: editorFind does not put the saved cursor and viewport back
PromptCancelNoRestore ==
    /\ pc = "prompt_key"
    /\ LET r == Callback(prompt.kind, E, last_match, direction, prompt.buf, ESC)
       IN  PromptReturn(r.E, r, ESC, IF prompt.kind = "find" THEN "find_esc" ELSE "save_aborted")

\* Escape: editorPrompt returns NULL
PromptCancel ==
    /\ pc = "prompt_key"
    /\ LET r == Callback(prompt.kind, E, last_match, direction, prompt.buf, ESC)
       IN  IF prompt.kind = "find"
           THEN PromptReturn([r.E EXCEPT !.cx = saved[1], !.cy = saved[2],
                                         !.coloff = saved[3], !.rowoff = saved[4]], r,
                             ESC, "find_esc")
           ELSE PromptReturn(r.E, r, ESC, "save_aborted")

\* Enter on a non-empty buffer: editorPrompt returns the buffer
PromptAccept ==
    /\ pc = "prompt_key"
    /\ Len(prompt.buf) # 0
    /\ LET r == Callback(prompt.kind, E, last_match, direction, prompt.buf, CR)
       IN  IF prompt.kind = "find"
           THEN PromptReturn(r.E, r, CR, "find_enter")
           ELSE \E ok \in BOOLEAN :
                   PromptReturn(editorSave([r.E EXCEPT !.filename = {prompt.buf}], ok), r,
                                CR, IF ok THEN "save_ok" ELSE "save_failed")

\* Enter on an empty buffer
PromptEnterEmpty ==
    /\ pc = "prompt_key"
    /\ Len(prompt.buf) = 0
    /\ PromptContinue(prompt.buf, CR)

PromptAppend ==
    /\ pc = "prompt_key"
    /\ Len(prompt.buf) < MaxBuf
    /\ \E c \in PromptChars : PromptContinue(Append(prompt.buf, c), c)

\* any other key: control characters and the named keys
PromptOther ==
    /\ pc = "prompt_key"
    /\ \E c \in PromptOtherKeys :
          PromptContinue(prompt.buf, c)

Next ==
    \/ EnableRawMode
    \/ InitEditor
    \/ OpenArg
    \/ Refresh
    \/ ReadFail
    \/ KeyEnter
    \/ KeyQuit
    \/ KeySave
    \/ KeySaveAs
    \/ KeyHome
    \/ KeyEnd
    \/ KeyFind
    \/ KeyDelete
    \/ KeyPage
    \/ KeyArrow
    \/ KeyNoop
    \/ KeyInsertChar
    \/ PromptRefresh
    \/ PromptDelete
    \/ PromptCancel
    \/ PromptAccept
    \/ PromptEnterEmpty
    \/ PromptAppend
    \/ PromptOther

Spec == Init /\ [][Next]_vars

----------------------------------------------------------------------------
(* Properties of the editor loop *)

Abs(n) == IF n < 0 THEN -n ELSE n
AtKeyRead == pc \in {"keypress", "prompt_key"}
Ended == pc \in {"terminated", "undefined"}

\* C1 (as claimed): whenever the next key is about to be read (in the main loop
\* or inside a prompt), 0 <= cy <= numrows, and 0 <= cx <= row[cy].size when
\* cy < numrows.
C1_CursorInvariant ==
    AtKeyRead =>
        /\ 0 <= E.cy /\ E.cy <= E.numrows
        /\ (0 <= E.cy /\ E.cy < E.numrows) => (0 <= E.cx /\ E.cx <= RowAt(E, E.cy).size)

\* C2 (as claimed): with a dirty document the third consecutive Ctrl-Q press
\* terminates the editor.
C2_ThirdPressExits == qpresses = KILO_QUIT_TIMES => Ended

RECURSIVE TabExpansion(_)
TabExpansion(chars) ==
    IF chars = <<>> THEN <<>>
    ELSE LET front == TabExpansion(SubSeq(chars, 1, Len(chars) - 1))
             last == chars[Len(chars)]
         IN  IF last = TAB
             THEN front \o [i \in 1..(KILO_TAB_STOP - (Len(front) % KILO_TAB_STOP)) |-> SPACE]
             ELSE Append(front, last)

\* C4: in every state every row's render buffer is the tab expansion of its raw
\* characters, and size and rsize are the lengths of the two buffers.
C4_RenderInvariant ==
    \A i \in 1..Len(E.row) :
        /\ E.row[i].render = TabExpansion(E.row[i].chars)
        /\ E.row[i].rsize = Len(E.row[i].render)
        /\ E.row[i].size = Len(E.row[i].chars)

\* the row "<TAB>a" was split after the tab: a row of one tab, rendered to
\* eight spaces, above the row "a"
C4_Witness ==
    /\ hist.kind = "enter"
    /\ E.numrows = 2
    /\ E.row[1].chars = <<TAB>> /\ E.row[1].rsize = KILO_TAB_STOP
    /\ E.row[2].chars = <<97>> /\ E.row[2].rsize = 1

RxOfCursor(Ed) == IF Ed.cy < Ed.numrows THEN editorRowCxToRx(RowAt(Ed, Ed.cy), Ed.cx) ELSE 0

\* after editorScroll the cursor is inside the window
ViewportHolds ==
    (AtKeyRead /\ E.screenrows >= 1 /\ E.screencols >= 1) =>
        /\ E.rx = RxOfCursor(E)
        /\ E.rowoff <= E.cy /\ E.cy < E.rowoff + E.screenrows
        /\ E.coloff <= E.rx /\ E.rx < E.coloff + E.screencols
        /\ CursorCell(E)[1] \in 1..E.screenrows
        /\ CursorCell(E)[2] \in 1..E.screencols

\* a frame leaves an offset alone when the cursor is inside the window, and
\* otherwise moves it by the least amount that brings the cursor inside
ScrollIsMinimal ==
    (pc \in {"refresh", "prompt_refresh"} /\ E.screenrows >= 1 /\ E.screencols >= 1) =>
        LET rx == RxOfCursor(E)
            rowInside == E.rowoff <= E.cy /\ E.cy < E.rowoff + E.screenrows
            colInside == E.coloff <= rx /\ rx < E.coloff + E.screencols
        IN  /\ rowInside => E'.rowoff = E.rowoff
            /\ ~rowInside =>
                  \A r \in 0..E.cy : (r <= E.cy /\ E.cy < r + E.screenrows)
                                        => Abs(E'.rowoff - E.rowoff) <= Abs(r - E.rowoff)
            /\ colInside => E'.coloff = E.coloff
            /\ ~colInside =>
                  \A c \in 0..rx : (c <= rx /\ rx < c + E.screencols)
                                      => Abs(E'.coloff - E.coloff) <= Abs(c - E.coloff)

\* C5: at every key read, i.e. after editorScroll ran for the frame, the cursor's
\* row is in [rowoff, rowoff + screenrows) and its rendered column in
\* [coloff, coloff + screencols), so the emitted cursor cell is on the screen; and
\* each frame changes an offset only when the cursor is outside the window, by the
\* least amount that brings it inside.
C5_Viewport == []ViewportHolds /\ [][ScrollIsMinimal]_vars

\* the window has scrolled both down and right
C5_Witness ==
    /\ pc = "keypress" /\ E.screenrows >= 1
    /\ E.rowoff > 0 /\ E.coloff > 0 /\ E.cx > 0

\* C13: when a find session has ended with Escape, cx, cy, rowoff and coloff are
\* the values they had when the session was entered and the rows are unchanged;
\* when it has ended with Enter on a non-empty query, the cursor is where it was
\* before the Enter, that is where the last hit put it.
C13_CancelRestores ==
    /\ hist.kind = "find_esc" =>
          /\ E.cx = hist.entry.cx /\ E.cy = hist.entry.cy
          /\ E.rowoff = hist.entry.rowoff /\ E.coloff = hist.entry.coloff
          /\ RawRows(E) = hist.entry.rows
    /\ hist.kind = "find_enter" =>
          /\ E.cx = hist.before[1] /\ E.cy = hist.before[2]
          /\ RawRows(E) = hist.entry.rows

\* a session whose hit had moved the cursor to another row and scrolled the
\* window was cancelled
C13_Witness ==
    /\ hist.kind = "find_esc"
    /\ hist.before[2] # E.cy
    /\ hist.before[3] # E.rowoff

\* C14 (as claimed): after a save that failed, the rows, the dirty counter, the
\* filename (absent, when it was absent before the save key) and the cursor are
\* as they were before the save key, and the main loop goes on; the dirty counter
\* is cleared by a save that succeeded.
C14_FailedSaveKeepsState ==
    /\ hist.kind = "save_failed" =>
          /\ pc = "refresh"
          /\ RawRows(E) = hist.entry.rows
          /\ E.dirty_flag = hist.entry.dirty
          /\ E.filename = hist.entry.filename
          /\ E.cx = hist.entry.cx /\ E.cy = hist.entry.cy
    /\ hist.kind = "save_ok" => E.dirty_flag = 0

\* a key of the main loop, or of a prompt, was dispatched and the program goes on
KeyStep == pc \in {"keypress", "prompt_key"} /\ pc' \in {"refresh", "prompt_refresh"}

DirtyStep ==
    /\ (pc = "open" /\ pc' = "refresh") => E'.dirty_flag = 0
    /\ KeyStep =>
          /\ hist'.kind = "save_ok" => E'.dirty_flag = 0
          /\ RawRows(E') # RawRows(E) => E'.dirty_flag > E.dirty_flag
          /\ (RawRows(E') = RawRows(E) /\ hist'.kind # "save_ok") =>
                E'.dirty_flag = E.dirty_flag

\* C15: the dirty counter is 0 right after a load and after a successful save;
\* a key that changes the rows strictly increases it; a key that leaves the rows
\* alone leaves it alone; so it is 0 exactly when no key has changed the rows
\* since the last successful load or save.
C15_DirtyCounter ==
    /\ [][DirtyStep]_vars
    /\ [](~Ended /\ pc # "out_of_bounds" => (E.dirty_flag = 0 <=> ~hist.mutated))

\* a document edited by an Enter and a merge was saved
C15_Witness ==
    /\ hist.kind = "save_ok" /\ hist.entry.dirty >= 3 /\ E.dirty_flag = 0
    /\ ~hist.mutated

\* C18: a PageDown or PageUp pressed with the cursor inside the viewport
\* (rowoff <= cy < rowoff + screenrows), once the next frame is drawn, has raised
\* rowoff by screenrows when rowoff + 2*screenrows - 1 <= numrows, resp. lowered it
\* by screenrows when rowoff >= screenrows; otherwise the cursor is on the row
\* after the last (cy = numrows), resp. on the first row (cy = 0); and the cursor
\* is inside the document in every case.
C18_PageScroll ==
    (/\ pc = "keypress"
     /\ hist.kind \in {"page_up", "page_down"}
     /\ hist.entry.rowoff <= hist.entry.cy
     /\ hist.entry.cy < hist.entry.rowoff + E.screenrows) =>
        LET r0 == hist.entry.rowoff
        IN  /\ hist.kind = "page_down" =>
                  IF r0 + 2 * E.screenrows - 1 <= E.numrows
                  THEN E.rowoff = r0 + E.screenrows
                  ELSE E.cy = E.numrows
            /\ hist.kind = "page_up" =>
                  IF r0 >= E.screenrows
                  THEN E.rowoff = r0 - E.screenrows
                  ELSE E.cy = 0
            /\ 0 <= E.cy /\ E.cy <= E.numrows
            /\ E.cy < E.numrows => (0 <= E.cx /\ E.cx <= RowAt(E, E.cy).size)

\* PageDown in a window of 2 text rows over 3 or more rows scrolled from row 0 to
\* row 2
C18_Witness ==
    /\ pc = "keypress" /\ hist.kind = "page_down"
    /\ E.screenrows = 2 /\ hist.entry.rowoff = 0 /\ hist.entry.cy = 0
    /\ E.rowoff = 2 /\ E.cy = 3

\* a frame: editorRefreshScreen, in the main loop or at the top of the prompt loop
FrameStep ==
    /\ pc \in {"refresh", "prompt_refresh"}
    /\ pc' = IF pc = "refresh" THEN "keypress" ELSE "prompt_key"
    /\ E' = editorScroll(E)

\* C19: a key is read only straight after a frame (in the main loop and in a
\* prompt alike); the dispatch of a key read leads, in one piece, to a frame or to
\* the end of the program, never to another key read; and the dispatch of Escape
\* or Ctrl-L leaves E as it was and leads to a frame.
C19_LoopOrdering ==
    [][/\ pc' \in {"keypress", "prompt_key"} => FrameStep
       /\ pc \in {"keypress", "prompt_key"} =>
              pc' \in {"refresh", "prompt_refresh", "terminated", "undefined", "out_of_bounds"}
       /\ (pc = "keypress" /\ hist'.kind = "noop") => (E' = E /\ pc' = "refresh")
    ]_vars

\* Escape or Ctrl-L was dispatched over a loaded document with the cursor inside
\* a row, and the frame is next
C19_Witness ==
    /\ pc = "refresh" /\ hist.kind = "noop"
    /\ E.numrows > 0 /\ E.cx > 0 /\ E.dirty_flag = 0

\* the rows after a forward delete at (cx, cy): the character at the cursor is
\* removed; at the end of a row that is not the last the next row is joined on;
\* anywhere else nothing changes
RefForwardDelete(rows, cx, cy) ==
    IF cy < Len(rows) /\ cx < Len(rows[cy + 1])
    THEN [rows EXCEPT ![cy + 1] = RemoveAt(@, cx)]
    ELSE IF cy < Len(rows) - 1 /\ cx = Len(rows[cy + 1])
    THEN [i \in 1..(Len(rows) - 1) |->
             IF i <= cy THEN rows[i]
             ELSE IF i = cy + 1 THEN rows[cy + 1] \o rows[cy + 2]
             ELSE rows[i + 1]]
    ELSE rows

\* C23 (as claimed): the Delete key, pressed with the cursor inside the
\* document, leaves (cx, cy) unchanged and removes the character at the cursor,
\* joins the next row on at the end of a row that is not the last, and changes
\* nothing at the end of the last row or on the line after the last row.
C23_DeleteKeepsCursor ==
    [][(/\ pc = "keypress" /\ pc' = "refresh" /\ hist'.kind = "del"
        /\ E.cy <= E.numrows
        /\ E.cy < E.numrows => E.cx <= RowAt(E, E.cy).size) =>
           /\ E'.cx = E.cx /\ E'.cy = E.cy
           /\ RawRows(E') = RefForwardDelete(RawRows(E), E.cx, E.cy)
    ]_vars

\* C8: after Enter on a row (cy < numrows, any column) and then Backspace, the
\* rows, hence the row count and every row's raw content, are as before the Enter.
C8_SplitMergeInverse == hist.kind = "enter_bs" => RawRows(E) = hist.before

\* a row holding a tab was split in its middle and merged again
C8_Witness ==
    /\ hist.kind = "enter_bs"
    /\ E.cx > 0 /\ E.cx < RowAt(E, E.cy).size
    /\ \E j \in 1..RowAt(E, E.cy).size : RowAt(E, E.cy).chars[j] = TAB

\* a Backspace or Ctrl-H dispatched by editorProcessKeypress
BackspaceStep ==
    /\ pc = "keypress"
    /\ pc' = "refresh"
    /\ ~DelCharUndefined(E)
    /\ \E c \in {BACKSPACE, CTRL_H} : E' = DeleteKey(E, c)

\* C9: Backspace at (i, 0) with 0 < i < numrows removes one row, makes row i-1 the
\* old row i-1 followed by the old row i, keeps the other rows in order, and puts
\* the cursor at row i-1, column the old length of row i-1; at (0, 0) it changes
\* nothing.
C9_BackspaceMerge ==
    [][BackspaceStep =>
        /\ (E.cx = 0 /\ 0 < E.cy /\ E.cy < E.numrows) =>
              /\ E'.numrows = E.numrows - 1
              /\ RawRows(E') = [k \in 1..(E.numrows - 1) |->
                                  IF k < E.cy THEN E.row[k].chars
                                  ELSE IF k = E.cy
                                       THEN E.row[E.cy].chars \o E.row[E.cy + 1].chars
                                       ELSE E.row[k + 1].chars]
              /\ E'.cy = E.cy - 1
              /\ E'.cx = Len(E.row[E.cy].chars)
        /\ (E.cx = 0 /\ E.cy = 0) => E' = E
    ]_vars

\* a Backspace at (2, 0) has just merged the third row into the second, below
\* a first row that was left alone
C9_Witness ==
    /\ hist.kind = "enter_bs"
    /\ E.cy = 1 /\ E.numrows = 2
    /\ Len(hist.before) = 2 /\ RawRows(E) = hist.before

----------------------------------------------------------------------------
(* The key decoder, editorReadKey, one read() per step *)

\* the bytes the terminal sends
ByteSet == {ESC, 91, 79, 126, 97, 71, 200, 255, CTRL_Q} \cup (65..68) \cup {70, 72} \cup (48..57)
\* a poll that yields no byte: read() returned 0 (timeout) or -1
NoByte == -1

\* char c converted to the int editorReadKey returns: plain char is signed on
\* some builds and unsigned on others
CharValues(b) == IF b < 128 THEN {b} ELSE {b, b - 256}

\* mutant: the cases '7' and '8' are missing
CsiDigitKeyNo78(d) ==
    CASE d = 49 -> HOME_KEY
      [] d = 51 -> DEL_KEY
      [] d = 52 -> END_KEY
      [] d = 53 -> PAGE_UP
      [] d = 54 -> PAGE_DOWN
      [] OTHER -> ESC

\* switch (seq[1]) under ESC [ <digit> ~
CsiDigitKey(d) ==
    CASE d = 49 -> HOME_KEY
      [] d = 51 -> DEL_KEY
      [] d = 52 -> END_KEY
      [] d = 53 -> PAGE_UP
      [] d = 54 -> PAGE_DOWN
      [] d = 55 -> HOME_KEY
      [] d = 56 -> END_KEY
      [] OTHER -> ESC

\* switch (seq[1]) under ESC [
CsiLetterKey(ch) ==
    CASE ch = 65 -> ARROW_UP
      [] ch = 66 -> ARROW_DOWN
      [] ch = 67 -> ARROW_RIGHT
      [] ch = 68 -> ARROW_LEFT
      [] ch = 72 -> HOME_KEY
      [] ch = 70 -> END_KEY
      [] OTHER -> ESC

\* switch (seq[1]) under ESC O
SS3Key(ch) ==
    CASE ch = 72 -> HOME_KEY
      [] ch = 70 -> END_KEY
      [] OTHER -> ESC

KeyReturn(k) == kret' = k /\ kpc' = "returned"

\* a caller calls editorReadKey
KeyCall ==
    /\ kpc \in {"idle", "returned"}
    /\ kpc' = "read_c"
    /\ kseq' = <<>>
    /\ kpolls' = 0
    /\ kret' = 0
    /\ UNCHANGED <<edVars, ioVars, auxVars>>

\* the while loop around the first read: it polls until a byte arrives, and
\* dies on an error other than EAGAIN
ReadFirst ==
    /\ kpc = "read_c"
    /\ \/ UNCHANGED <<kpc, kseq, kret>>
       \/ kpc' = "died" /\ UNCHANGED <<kseq, kret>>
       \/ \E b \in ByteSet :
             /\ kseq' = <<b>>
             /\ IF b = ESC THEN kpc' = "read_seq0" /\ UNCHANGED kret
                ELSE \E v \in CharValues(b) : KeyReturn(v)
    /\ UNCHANGED <<kpolls, edVars, ioVars, auxVars>>

\* mutant: a failed read after 0x1B is fatal, like a failed first read
ReadSeq0Dies ==
    /\ kpc = "read_seq0"
    /\ kpolls' = kpolls + 1
    /\ \/ kseq' = Append(kseq, NoByte) /\ kpc' = "died" /\ UNCHANGED kret
       \/ \E b \in ByteSet : kseq' = Append(kseq, b) /\ kpc' = "read_seq1" /\ UNCHANGED kret
    /\ UNCHANGED <<edVars, ioVars, auxVars>>

\* read(STDIN_FILENO, &seq[0], 1)
ReadSeq0 ==
    /\ kpc = "read_seq0"
    /\ kpolls' = kpolls + 1
    /\ \/ kseq' = Append(kseq, NoByte) /\ KeyReturn(ESC)
       \/ \E b \in ByteSet : kseq' = Append(kseq, b) /\ kpc' = "read_seq1" /\ UNCHANGED kret
    /\ UNCHANGED <<edVars, ioVars, auxVars>>

\* read(STDIN_FILENO, &seq[1], 1) and the branches that need no third byte
ReadSeq1 ==
    /\ kpc = "read_seq1"
    /\ kpolls' = kpolls + 1
    /\ \/ kseq' = Append(kseq, NoByte) /\ KeyReturn(ESC)
       \/ \E b \in ByteSet :
             /\ kseq' = Append(kseq, b)
             /\ IF kseq[2] = 91
                THEN IF b >= 48 /\ b <= 57
                     THEN kpc' = "read_seq2" /\ UNCHANGED kret
                     ELSE KeyReturn(CsiLetterKey(b))
                ELSE IF kseq[2] = 79 THEN KeyReturn(SS3Key(b))
                ELSE KeyReturn(ESC)
    /\ UNCHANGED <<edVars, ioVars, auxVars>>

\* read(STDIN_FILENO, &seq[2], 1) of an extended sequence
ReadSeq2 ==
    /\ kpc = "read_seq2"
    /\ kpolls' = kpolls + 1
    /\ \/ kseq' = Append(kseq, NoByte) /\ KeyReturn(ESC)
       \/ \E b \in ByteSet :
             /\ kseq' = Append(kseq, b)
             /\ IF b = 126 THEN KeyReturn(CsiDigitKey(kseq[3])) ELSE KeyReturn(ESC)
    /\ UNCHANGED <<edVars, ioVars, auxVars>>

NextKey == KeyCall \/ ReadFirst \/ ReadSeq0 \/ ReadSeq1 \/ ReadSeq2

SpecKey == Init /\ [][NextKey]_vars

\* C6: once a 0x1B byte was read the call polls the byte source at most three
\* more times and has returned by the third; it never dies; and when a poll
\* yields no byte the key returned is the bare Escape.
C6_EscapeRobust ==
    (Len(kseq) >= 1 /\ kseq[1] = ESC) =>
        /\ kpolls <= 3
        /\ kpolls = Len(kseq) - 1
        /\ kpolls = 3 => kpc = "returned"
        /\ kpc # "died"
        /\ (kpc = "returned" /\ kseq[Len(kseq)] = NoByte) => kret = ESC
        /\ kpc = "returned" => kret \in {ESC} \cup (ARROW_LEFT..PAGE_DOWN)

\* a lone 0x1B followed by a timeout came back as Escape
C6_Witness == kpc = "returned" /\ kseq = <<ESC, NoByte>> /\ kret = ESC

\* C22 (as claimed): for a first byte b other than 0x1B the call returns b
\* itself: a value in 0..255, below the named key codes and never negative.
C22_LiteralBytes ==
    (kpc = "returned" /\ Len(kseq) = 1) =>
        /\ kret = kseq[1]
        /\ kret \in 0..255
        /\ kret < ARROW_LEFT

\* the reference table of escape sequences
RefTable ==
    [s \in {<<ESC, 91, 65>>} |-> ARROW_UP] @@ [s \in {<<ESC, 91, 66>>} |-> ARROW_DOWN] @@
    [s \in {<<ESC, 91, 67>>} |-> ARROW_RIGHT] @@ [s \in {<<ESC, 91, 68>>} |-> ARROW_LEFT] @@
    [s \in {<<ESC, 91, 72>>, <<ESC, 79, 72>>, <<ESC, 91, 49, 126>>, <<ESC, 91, 55, 126>>}
        |-> HOME_KEY] @@
    [s \in {<<ESC, 91, 70>>, <<ESC, 79, 70>>, <<ESC, 91, 52, 126>>, <<ESC, 91, 56, 126>>}
        |-> END_KEY] @@
    [s \in {<<ESC, 91, 51, 126>>} |-> DEL_KEY] @@
    [s \in {<<ESC, 91, 53, 126>>} |-> PAGE_UP] @@
    [s \in {<<ESC, 91, 54, 126>>} |-> PAGE_DOWN]

RefKey(s) == IF s \in DOMAIN RefTable THEN RefTable[s] ELSE ESC

\* C7: a call that read 0x1B returns the key the reference table gives for the
\* bytes it consumed, and Escape for every sequence not in the table.
C7_EscapeTable ==
    (kpc = "returned" /\ kseq[1] = ESC) => kret = RefKey(kseq)

\* ESC [ 5 ~ came back as PageUp
C7_Witness == kpc = "returned" /\ kseq = <<ESC, 91, 53, 126>> /\ kret = PAGE_UP

----------------------------------------------------------------------------
(* The file boundary: editorOpen on a file, then editorSave at once *)

\* the bytes files are made of
FileBytes == {97, TAB, CR, LF}

RECURSIVE SeqsUpTo(_, _)
SeqsUpTo(S, n) ==
    IF n = 0 THEN {<<>>}
    ELSE LET shorter == SeqsUpTo(S, n - 1)
         IN  shorter \cup {Append(q, x) : q \in {t \in shorter : Len(t) = n - 1}, x \in S}

\* ftruncate(fd, len): the file cut, or extended with zero bytes, to len bytes
Truncated(bytes, len) ==
    [i \in 1..len |-> IF i <= Len(bytes) THEN bytes[i] ELSE 0]

InitIO ==
    /\ EdInit
    /\ KeyIdle
    /\ CvIdle
    /\ LogOff
    /\ NoBar
    /\ input \in SeqsUpTo(FileBytes, MaxFileLen)
    /\ disk = input
    /\ iopc = "open"

\* editorOpen(argv[1]) on the file, fopen having succeeded
IOOpen ==
    /\ iopc = "open"
    /\ E' = editorOpen(E, ArgFile.name, input)
    /\ iopc' = "save"
    /\ UNCHANGED <<pc, quit_times, termios, atexit_set, restore, prompt, last_match,
                   direction, saved, qpresses, hist, keyVars, input, disk, auxVars>>

\* editorSave with a filename: open, ftruncate and write succeed, or one of them
\* fails, open and ftruncate leaving the file as it was and write leaving it cut
IOSave ==
    /\ iopc = "save"
    /\ LET buf == editorRowsToString(E)
       IN  \/ /\ E' = editorSave(E, TRUE)
              /\ disk' = buf
              /\ iopc' = "saved"
           \/ /\ E' = editorSave(E, FALSE)
              /\ disk' \in {disk, Truncated(disk, Len(buf))}
              /\ iopc' = "save failed"
    /\ UNCHANGED <<pc, quit_times, termios, atexit_set, restore, prompt, last_match,
                   direction, saved, qpresses, hist, keyVars, input, auxVars>>

NextIO == IOOpen \/ IOSave

SpecIO == InitIO /\ [][NextIO]_vars

\* the input with a final LF added when it is not empty and does not end in one
WithFinalNewline(bytes) ==
    IF bytes = <<>> \/ bytes[Len(bytes)] = LF THEN bytes ELSE Append(bytes, LF)

\* the lines of a byte stream, each without the LF that ended it
RECURSIVE SplitLF(_)
SplitLF(bytes) ==
    LET idx == {i \in 1..Len(bytes) : bytes[i] = LF}
    IN  IF bytes = <<>> THEN <<>>
        ELSE IF idx = {} THEN <<bytes>>
        ELSE LET i == CHOOSE k \in idx : \A m \in idx : k <= m
             IN  <<SubSeq(bytes, 1, i - 1)>> \o SplitLF(SubSeq(bytes, i + 1, Len(bytes)))

\* a line without the run of CR bytes that ends it
WithoutTrailingCRs(line) ==
    LET keep == {k \in 0..Len(line) : k = 0 \/ line[k] # CR}
    IN  SubSeq(line, 1, CHOOSE k \in keep : \A m \in keep : m <= k)

RECURSIVE JoinLF(_)
JoinLF(lines) ==
    IF lines = <<>> THEN <<>>
    ELSE WithoutTrailingCRs(Head(lines)) \o <<LF>> \o JoinLF(Tail(lines))

NoLineEndsInCR(bytes) ==
    \A i \in 1..Len(SplitLF(bytes)) :
        LET line == SplitLF(bytes)[i] IN line = <<>> \/ line[Len(line)] # CR

\* C10 (as claimed): load then save writes the input, with a final LF added when
\* it had none.
C10_ByteIdentical == iopc = "saved" => disk = WithFinalNewline(input)

\* C10 (amended): load then save writes every line of the input without the run
\* of CR bytes that ends it, followed by one LF; this is the input itself (with a
\* final LF added when it had none) when no line ends in CR.
C10_RoundTrip ==
    iopc = "saved" =>
        /\ disk = JoinLF(SplitLF(input))
        /\ NoLineEndsInCR(input) => disk = WithFinalNewline(input)

\* a line with a tab and a CR LF ending, and a last line without LF
C10_Witness ==
    iopc = "saved" /\ input = <<TAB, CR, LF, 97>> /\ disk = <<TAB, LF, 97, LF>>

----------------------------------------------------------------------------
(* The coordinate conversions editorRowCxToRx and editorRowRxToCx *)

\* the rows handed to the conversions: every row over a letter and the tab
CvRows ==
    {editorUpdateRow([size |-> Len(c), rsize |-> 0, chars |-> c, render |-> <<>>]) :
        c \in SeqsUpTo({97, TAB}, MaxRowLen)}

InitCv ==
    /\ EdInit
    /\ KeyIdle
    /\ IoIdle
    /\ LogOff
    /\ NoBar
    /\ \E row \in CvRows : \E cx \in 0..row.size :
          cv = [pc |-> "idle", row |-> row, cx |-> cx, rx |-> 0, out |-> 0]

\* editorScroll: E.rx = editorRowCxToRx(&E.row[E.cy], E.cx)
CvCxToRx ==
    /\ cv.pc = "idle"
    /\ cv' = [cv EXCEPT !.rx = editorRowCxToRx(cv.row, cv.cx), !.pc = "rendered"]
    /\ UNCHANGED <<edVars, keyVars, ioVars, plog, bar>>

\* a rendered column at or beyond the rendered length of the row
CvPastEnd ==
    /\ cv.pc = "idle"
    /\ \E rx \in cv.row.rsize..(cv.row.rsize + MaxPast) :
          cv' = [cv EXCEPT !.rx = rx, !.pc = "past"]
    /\ UNCHANGED <<edVars, keyVars, ioVars, plog, bar>>

\* editorFindCallback: E.cx = editorRowRxToCx(row, match - row->render)
CvRxToCx ==
    /\ cv.pc \in {"rendered", "past"}
    /\ cv' = [cv EXCEPT !.out = editorRowRxToCx(cv.row, cv.rx),
                        !.pc = IF cv.pc = "rendered" THEN "round trip" ELSE "past end"]
    /\ UNCHANGED <<edVars, keyVars, ioVars, plog, bar>>

NextCv == CvCxToRx \/ CvPastEnd \/ CvRxToCx

SpecCv == InitCv /\ [][NextCv]_vars

NoAdjacentTabs(chars) == \A i \in 1..(Len(chars) - 1) : ~(chars[i] = TAB /\ chars[i + 1] = TAB)

\* C11: for a row without adjacent tabs and 0 <= cx <= size, converting cx to a
\* rendered column and back gives cx; and a rendered column at or beyond the
\* rendered length converts to size.
C11_CoordinateRoundTrip ==
    /\ (cv.pc = "round trip" /\ NoAdjacentTabs(cv.row.chars)) => cv.out = cv.cx
    /\ cv.pc = "past end" => cv.out = cv.row.size

\* the column after the tab of "a<TAB>a" went to rendered column 8 and back
C11_Witness ==
    /\ cv.pc = "round trip"
    /\ cv.row.chars = <<97, TAB, 97>> /\ cv.cx = 2 /\ cv.rx = KILO_TAB_STOP /\ cv.out = 2

----------------------------------------------------------------------------
(* editorUpdateRow over raw rows *)

\* the raw rows rendered: every row over a letter, the space and the tab
RenderRows ==
    {[size |-> Len(c), rsize |-> 0, chars |-> c, render |-> <<>>] :
        c \in SeqsUpTo({97, SPACE, TAB}, MaxRowLen)}

InitRender ==
    /\ EdInit
    /\ KeyIdle
    /\ IoIdle
    /\ LogOff
    /\ NoBar
    /\ \E row \in RenderRows :
          cv = [pc |-> "raw", row |-> row, cx |-> 0, rx |-> 0, out |-> 0,
                alloc |-> 0, written |-> 0]

\* editorUpdateRow: render is allocated and filled, the terminator included; a
\* write past the allocation is a heap overflow
RenderRow ==
    /\ cv.pc = "raw"
    /\ LET row == editorUpdateRow(cv.row)
           alloc == RenderAlloc(cv.row)
           written == Len(row.render) + 1
       IN  cv' = [cv EXCEPT !.row = row, !.alloc = alloc, !.written = written,
                            !.pc = IF written > alloc THEN "overflow" ELSE "rendered"]
    /\ UNCHANGED <<edVars, keyVars, ioVars, plog, bar>>

\* editorRowCxToRx over the rendered row, for a cursor column of the row
RenderCxToRx ==
    /\ cv.pc = "rendered"
    /\ \E cx \in 0..cv.row.size :
          cv' = [cv EXCEPT !.cx = cx, !.rx = editorRowCxToRx(cv.row, cx), !.pc = "mapped"]
    /\ UNCHANGED <<edVars, keyVars, ioVars, plog, bar>>

NextRender == RenderRow \/ RenderCxToRx

SpecRender == InitRender /\ [][NextRender]_vars

\* C24: editorUpdateRow writes at most size + 7 * tabs characters and the
\* terminator, never more than the bytes it allocated; rsize is
\* editorRowCxToRx(row, size); and for every column cx of the row
\* editorRowCxToRx(row, cx) is the rendered length of the first cx raw characters.
C24_RenderBound ==
    /\ cv.pc # "overflow"
    /\ cv.pc \in {"rendered", "mapped"} =>
          LET tabs == Cardinality({i \in 1..cv.row.size : cv.row.chars[i] = TAB})
          IN  /\ cv.written = cv.row.rsize + 1
              /\ cv.row.rsize <= cv.row.size + 7 * tabs
              /\ cv.alloc = cv.row.size + tabs * (KILO_TAB_STOP - 1) + 1
              /\ cv.written <= cv.alloc
              /\ cv.row.rsize = editorRowCxToRx(cv.row, cv.row.size)
    /\ cv.pc = "mapped" =>
          /\ cv.rx = Len(TabExpansion(SubSeq(cv.row.chars, 1, cv.cx)))
          /\ cv.cx = cv.row.size => cv.rx = cv.row.rsize

\* the row "a<TAB><TAB>": 16 rendered characters and the terminator in the 18
\* bytes allocated, and the end of the row maps to rendered column 16
C24_Witness ==
    /\ cv.pc = "mapped"
    /\ cv.row.chars = <<97, TAB, TAB>> /\ cv.cx = 3
    /\ cv.row.rsize = 16 /\ cv.written = 17 /\ cv.alloc = 18 /\ cv.rx = 16

----------------------------------------------------------------------------
(* A find session over a loaded document *)

\* the rows of the documents searched
FindRowChars == {<<97>>, <<98>>, <<TAB, 97>>}

\* the documents searched: loaded, unmodified, shown in a window of 2 text rows
FindDocs ==
    {[ZeroE EXCEPT !.screenrows = 2, !.screencols = 9,
                   !.numrows = Len(rows),
                   !.row = [i \in 1..Len(rows) |->
                               editorUpdateRow([size |-> Len(rows[i]), rsize |-> 0,
                                                chars |-> rows[i], render |-> <<>>])],
                   !.filename = {ArgFile.name}] :
        rows \in SeqsUpTo(FindRowChars, MaxFindRows)}

\* Ctrl-F has just been pressed with the cursor at the top of the document
InitFind ==
    /\ E \in FindDocs
    /\ pc = "prompt_refresh"
    /\ quit_times = KILO_QUIT_TIMES
    /\ termios = "raw"
    /\ atexit_set = TRUE
    /\ restore = "none"
    /\ prompt = [kind |-> "find", buf |-> <<>>]
    /\ last_match = -1
    /\ direction = 1
    /\ saved = <<0, 0, 0, 0>>
    /\ qpresses = 0
    /\ hist = NoHist
    /\ KeyIdle /\ IoIdle /\ CvIdle /\ LogOff /\ NoBar

NextFind ==
    \/ PromptRefresh
    \/ PromptDelete
    \/ PromptCancel
    \/ PromptAccept
    \/ PromptEnterEmpty
    \/ PromptAppend
    \/ PromptOther

SpecFind == InitFind /\ [][NextFind]_vars

\* the query occurs in the text as a contiguous substring
Contains(text, query) ==
    \E o \in 0..(Len(text) - Len(query)) : SubSeq(text, o + 1, o + Len(query)) = query

\* the k-th row examined from match m in direction d, modulo numrows
Examined(m, d, k, n) == (m + k * d) % n

\* the first of the rows m+d, m+2d, ... (at most numrows of them, modulo numrows)
\* whose rendered text contains the query, or m when there is none
NextMatch(Ed, m, d, query) ==
    LET ks == {k \in 1..Ed.numrows :
                  Contains(RowAt(Ed, Examined(m, d, k, Ed.numrows)).render, query)}
    IN  IF ks = {} THEN m
        ELSE Examined(m, d, CHOOSE k \in ks : \A j \in ks : k <= j, Ed.numrows)

\* the prompt handed key c to editorFindCallback and went round its loop
FindStepOn(c) ==
    /\ pc = "prompt_key" /\ pc' = "prompt_refresh"
    /\ prompt.kind = "find"
    /\ LET r == editorFindCallback(E, last_match, direction, prompt'.buf, c)
       IN  E' = r.E /\ last_match' = r.last_match /\ direction' = r.direction

ArrowDirection(c) == IF c \in {ARROW_RIGHT, ARROW_DOWN} THEN 1 ELSE -1

\* C12: with a current match m, a step on an arrow key takes the arrow's direction
\* d and sets last_match to the first of the rows m+d, m+2d, ... modulo numrows
\* (at most numrows of them, all inside 0..numrows-1) whose rendered text contains
\* the query, moving the cursor to that row.
C12_SearchStep ==
    [][\A c \in {ARROW_RIGHT, ARROW_DOWN, ARROW_LEFT, ARROW_UP} :
          (FindStepOn(c) /\ last_match # -1 /\ prompt' = prompt) =>
              /\ direction' = ArrowDirection(c)
              /\ last_match' = NextMatch(E, last_match, ArrowDirection(c), prompt.buf)
              /\ last_match' \in 0..(E.numrows - 1)
              /\ E'.cy = last_match'
    ]_vars

\* rows [a, b, a]: a backward step from the match on row 0 landed on row 2
C12_Witness ==
    /\ RawRows(E) = <<(<<97>>), (<<98>>), (<<97>>)>>
    /\ prompt.buf = <<97>>
    /\ last_match = 2 /\ direction = -1 /\ E.cy = 2

\* the keys of a find session other than the four arrows, Enter and Escape
QueryKeys == {DEL_KEY, CTRL_H, BACKSPACE, TAB, HOME_KEY} \cup PromptChars

\* a find session returned to the main loop on this step
FindReturn == pc = "prompt_key" /\ prompt.kind = "find" /\ pc' = "refresh"

\* C20: outside a find session (at every key read of the main loop, however
\* many sessions have been ended by Enter or Escape) last_match is -1 and
\* direction is 1; inside one, a key other than the arrows, Enter and Escape
\* scans forward from no match: direction becomes 1 and last_match the first row
\* that contains the query, or -1; Enter, accepted or on an empty buffer, leaves
\* E as it was, and Escape moves nothing but what editorFind puts back from its
\* snapshot, both leaving last_match -1 and direction 1.
C20_SearchReset ==
    /\ [](prompt.kind # "find" => (last_match = -1 /\ direction = 1))
    /\ [][/\ \A c \in QueryKeys :
                FindStepOn(c) =>
                    /\ direction' = 1
                    /\ last_match' = NextMatch(E, -1, 1, prompt'.buf)
          /\ FindStepOn(CR) => (E' = E /\ last_match' = -1 /\ direction' = 1)
          /\ (FindReturn /\ hist'.kind = "find_enter") =>
                (E' = E /\ last_match' = -1 /\ direction' = 1)
          /\ (FindReturn /\ hist'.kind = "find_esc") =>
                /\ E' = [E EXCEPT !.cx = saved[1], !.cy = saved[2],
                                  !.coloff = saved[3], !.rowoff = saved[4]]
                /\ last_match' = -1 /\ direction' = 1
       ]_vars

\* a session that had moved the cursor to a match on another row was ended by
\* Enter
C20_Witness ==
    /\ pc = "refresh" /\ hist.kind = "find_enter"
    /\ E.cy # hist.entry.cy
    /\ last_match = -1 /\ direction = 1

\* the keys on which editorFindCallback scans
ScanKeys == QueryKeys \cup {ARROW_RIGHT, ARROW_DOWN, ARROW_LEFT, ARROW_UP}

\* the match and direction a scan on key c starts from
ScanFrom(c) ==
    LET m == IF c \in QueryKeys THEN -1 ELSE last_match
    IN  [m |-> m, d |-> IF m = -1 THEN 1 ELSE ArrowDirection(c)]

\* some row's rendered text contains the query
SomeRowContains(Ed, query) ==
    \E i \in 0..(Ed.numrows - 1) : Contains(RowAt(Ed, i).render, query)

----------------------------------------------------------------------------
(* The status bar of a frame *)

\* the filenames of the buffers drawn: none, a short one, one of 21 characters
StatusNames == {{}, {<<97>>}, {[i \in 1..21 |-> 97 + (i % 2)]}}
\* the widths of the terminals drawn to
StatusCols == {9, 40, 80}

\* buffers of empty rows, clean or modified, with the cursor on any row
StatusDocs ==
    {[ZeroE EXCEPT !.screenrows = 2, !.screencols = cols,
                   !.numrows = n, !.row = [i \in 1..n |-> NoRow],
                   !.cy = y, !.rowoff = IF y > 0 THEN y - 1 ELSE 0,
                   !.filename = name, !.dirty_flag = d] :
        n \in 0..MaxStatusRows, y \in 0..MaxStatusRows, cols \in StatusCols,
        name \in StatusNames, d \in {0, 1}}

\* editorRefreshScreen is about to draw a frame
InitStatus ==
    /\ E \in {Ed \in StatusDocs : Ed.cy <= Ed.numrows}
    /\ pc = "refresh"
    /\ quit_times = KILO_QUIT_TIMES
    /\ termios = "raw"
    /\ atexit_set = TRUE
    /\ restore = "none"
    /\ prompt = NoPrompt
    /\ last_match = -1
    /\ direction = 1
    /\ saved = <<0, 0, 0, 0>>
    /\ qpresses = 0
    /\ hist = [NoHist EXCEPT !.mutated = E.dirty_flag # 0]
    /\ KeyIdle /\ IoIdle /\ CvIdle /\ LogOff /\ NoBar

\* editorRefreshScreen: editorScroll, then editorDrawStatusBar into the frame
DrawStatusBar ==
    /\ pc = "refresh"
    /\ ~ScrollUndefined(E)
    /\ E' = editorScroll(E)
    /\ bar' = [drawn |-> TRUE, line |-> editorDrawStatusBar(E')]
    /\ pc' = "keypress"
    /\ UNCHANGED <<quit_times, termios, atexit_set, restore, prompt, last_match,
                   direction, saved, qpresses, hist, keyVars, ioVars, cv, plog>>

NextStatus == DrawStatusBar

SpecStatus == InitStatus /\ [][NextStatus]_vars

\* the filename as the status line shows it
ShownName(Ed) ==
    IF Ed.filename = {} THEN StrNoName
    ELSE LET f == CHOOSE g \in Ed.filename : TRUE
         IN  IF Len(f) > 20 THEN SubSeq(f, 1, 20) ELSE f

EndsWith(text, tail) ==
    Len(text) >= Len(tail) /\ SubSeq(text, Len(text) - Len(tail) + 1, Len(text)) = tail

\* C16 (as claimed): the status line of a frame contains the truncated filename
\* or the placeholder, the line count, the modified indicator exactly when the
\* dirty counter is not 0, and ends with the current-line/total-lines field.
C16_StatusLine ==
    bar.drawn =>
        /\ Contains(bar.line, ShownName(E))
        /\ Contains(bar.line, Digits(E.numrows) \o StrLines)
        /\ Contains(bar.line, StrModified) <=> E.dirty_flag # 0
        /\ EndsWith(bar.line, Digits(E.cy + 1) \o StrSlash \o Digits(E.numrows))

----------------------------------------------------------------------------
(* editorPrompt with its keys and callback calls recorded *)

\* bytes of the upper half typed into a prompt
HighBytes == {200, 255}

\* the buffers a prompt is opened over: empty or one row, no filename
PromptDocs == {[Ed EXCEPT !.filename = {}] : Ed \in {F \in FindDocs : F.numrows <= 1}}

\* editorFind or editorSave has just called editorPrompt
InitPrompt ==
    /\ E \in PromptDocs
    /\ pc = "prompt_refresh"
    /\ quit_times = KILO_QUIT_TIMES
    /\ termios = "raw"
    /\ atexit_set = TRUE
    /\ restore = "none"
    /\ prompt \in {[kind |-> "find", buf |-> <<>>], [kind |-> "save", buf |-> <<>>]}
    /\ last_match = -1
    /\ direction = 1
    /\ saved = <<0, 0, 0, 0>>
    /\ qpresses = 0
    /\ hist = [NoHist EXCEPT !.kind = IF prompt.kind = "find" THEN "find" ELSE "save_as",
                             !.entry = EntryOf(E)]
    /\ plog = [on |-> TRUE, kind |-> prompt.kind, keys |-> <<>>, calls |-> <<>>]
    /\ KeyIdle /\ IoIdle /\ CvIdle /\ NoBar

\* a byte of the upper half, as the int editorReadKey returned for it.  Where char
\* is unsigned the key is 128..255: iscntrl is false and c < 128 fails.  Where
\* char is signed the key is negative and c < 128 holds: iscntrl(-1) is
\* iscntrl(EOF), which is 0, and iscntrl of any other negative value is undefined
\* (the C library may answer either way).
PromptHighByte ==
    /\ pc = "prompt_key"
    /\ Len(prompt.buf) < MaxBuf
    /\ \E b \in HighBytes : \E c \in CharValues(b) :
          \E cntrl \in IF c >= 0 \/ c = -1 THEN {FALSE} ELSE BOOLEAN :
              PromptContinue(IF ~cntrl /\ c < 128 THEN Append(prompt.buf, b)
                             ELSE prompt.buf, c)

NextPrompt ==
    \/ PromptRefresh
    \/ PromptDelete
    \/ PromptCancel
    \/ PromptAccept
    \/ PromptEnterEmpty
    \/ PromptAppend
    \/ PromptOther
    \/ PromptHighByte

SpecPrompt == InitPrompt /\ [][NextPrompt]_vars

\* a non-control character of the 7-bit range
SevenBitPrintable(c) == c >= SPACE /\ c < BACKSPACE

\* the appended characters minus the deletions, over the keys read so far
RECURSIVE RefBuf(_)
RefBuf(keys) ==
    IF keys = <<>> THEN <<>>
    ELSE LET prev == RefBuf(SubSeq(keys, 1, Len(keys) - 1))
             c == keys[Len(keys)]
         IN  IF c \in {DEL_KEY, CTRL_H, BACKSPACE}
             THEN SubSeq(prev, 1, IF Len(prev) = 0 THEN 0 ELSE Len(prev) - 1)
             ELSE IF SevenBitPrintable(c) THEN Append(prev, c)
             ELSE prev

\* the i-th key read is one the prompt returns on
Returns(keys, i) ==
    \/ keys[i] = ESC
    \/ keys[i] = CR /\ RefBuf(SubSeq(keys, 1, i - 1)) # <<>>

\* C17 (as claimed): the prompt has returned exactly when the last key read was
\* Escape, or Enter on a non-empty buffer (the accepted buffer being the one
\* built); while it is open its buffer is the appended non-control 7-bit
\* characters minus the deletions; and a supplied callback has been called once
\* per key read, with the buffer after that key and with that key.
C17_PromptProtocol ==
    plog.on =>
        LET keys == plog.keys
            n == Len(keys)
        IN  /\ \A i \in 1..(n - 1) : ~Returns(keys, i)
            /\ prompt.kind = "none" <=> (n > 0 /\ Returns(keys, n))
            /\ prompt.kind # "none" => prompt.buf = RefBuf(keys)
            /\ (prompt.kind = "none" /\ plog.kind = "save") =>
                  E.filename = IF keys[n] = CR THEN {RefBuf(keys)} ELSE {}
            /\ plog.kind = "save" => plog.calls = <<>>
            /\ plog.kind = "find" =>
                  /\ Len(plog.calls) = n
                  /\ \A i \in 1..n : plog.calls[i] = <<RefBuf(SubSeq(keys, 1, i)), keys[i]>>

\* the same holds of every prompt whose keys are non-negative, as all are where
\* char is unsigned
C17_UnsignedOnly ==
    (\A i \in 1..Len(plog.keys) : plog.keys[i] >= 0) => C17_PromptProtocol

====
